---------------------------- MODULE Spec2Model ----------------------------
(***************************************************************************)
(* Foot-measurement widget (footscale).  The repository holds five          *)
(* revisions of one React component:                                        *)
(*   "tapjs"     src/unnamed/part_000          direct tap, no marking flag   *)
(*   "tap"       src/app/page.tsx    1-238     direct tap, no marking flag   *)
(*   "zoompan"   src/app/page.tsx  240-475     zoom buttons, drag pan        *)
(*   "magnifier" src/app/page.tsx  477-973     pinch, preview + confirm      *)
(*   "scroll"    src/app/page.tsx  975-1252    direct tap, marking flag      *)
(* The variable `variant` selects the revision that runs.                   *)
(*                                                                          *)
(* Numbers.  JavaScript numbers are modelled in exact arithmetic:           *)
(*   - coordinates, offsets and scales are rationals <<n, d>>, d > 0, in    *)
(*     lowest terms;                                                        *)
(*   - the values produced by Math.hypot and by the measurement arithmetic  *)
(*     are non-negative square roots of rationals, records                  *)
(*     [kind |-> "finite", sq |-> q] standing for sqrt(q), together with    *)
(*     Infinity and NaN, which division by zero produces in JavaScript.     *)
(* Binary rounding is not modelled: toFixed(1) rounds the exact value,      *)
(* half up, and the properties about stored lengths accept either          *)
(* neighbour where the exact value lies half-way between two one-decimal   *)
(* values.                                                                  *)
(*                                                                          *)
(* React.  State set by a handler is committed when the handler returns;    *)
(* an effect whose dependency list is [points] runs after every commit      *)
(* that replaced the points array, and React flushes pending effects        *)
(* before it dispatches the next event.  `effectPending` is that pending    *)
(* effect; every handler waits for it.                                      *)
(***************************************************************************)
EXTENDS Integers, Sequences, FiniteSets, TLC

(* ------------------------------ bounds -------------------------------- *)

\* Longest committed point list explored (the magnifier revision has no cap
\* of its own in confirmPoint).
MaxLen == 5

\* Pan / zoom steps of the zoompan revision explored together with marking.
MaxGestures == 1

\* Pan steps of the magnifier revision explored together with marking and
\* undo; its gestures are explored on their own in SpecZoom.
MaxPan == 0

\* Button zoom steps explored in SpecZoom (8 steps of 1.2 reach the limit 4).
MaxZoomDeep == 9

\* Pan / pinch steps of the magnifier revision explored in SpecZoom.
MaxPinch == 2

(* --------------------------- exact arithmetic ------------------------- *)

Abs(i) == IF i < 0 THEN -i ELSE i

RECURSIVE GCD(_, _)
GCD(a, b) == IF b = 0 THEN a ELSE GCD(b, a % b)

\* The rational n/d in lowest terms with a positive denominator (d # 0).
Rat(n, d) ==
    LET g == GCD(Abs(n), Abs(d))
        s == IF d < 0 THEN -1 ELSE 1
    IN  <<s * (n \div g), s * (d \div g)>>

RInt(i) == <<i, 1>>
Zero == RInt(0)
One == RInt(1)

RAdd(a, b) ==
    LET g == GCD(a[2], b[2])
    IN  Rat(a[1] * (b[2] \div g) + b[1] * (a[2] \div g), a[2] * (b[2] \div g))

RNeg(a) == <<-a[1], a[2]>>

RSub(a, b) == RAdd(a, RNeg(b))

RMul(a, b) ==
    LET g1 == GCD(Abs(a[1]), b[2])
        g2 == GCD(Abs(b[1]), a[2])
    IN  Rat((a[1] \div g1) * (b[1] \div g2), (a[2] \div g2) * (b[2] \div g1))

\* a / b for b # 0.
RDiv(a, b) == RMul(a, Rat(b[2], b[1]))

RLt(a, b) ==
    LET g == GCD(a[2], b[2])
    IN  a[1] * (b[2] \div g) < b[1] * (a[2] \div g)

RLe(a, b) == ~RLt(b, a)

RMin(a, b) == IF RLt(b, a) THEN b ELSE a

RMax(a, b) == IF RLt(a, b) THEN b ELSE a

\* floor(sqrt(n)) for 0 <= n < 2^31, by bisection on lo..hi.
RECURSIVE ISqrtIn(_, _, _)
ISqrtIn(n, lo, hi) ==
    IF lo >= hi THEN lo
    ELSE LET mid == (lo + hi + 1) \div 2
         IN  IF mid * mid <= n THEN ISqrtIn(n, mid, hi)
                               ELSE ISqrtIn(n, lo, mid - 1)

ISqrt(n) == ISqrtIn(n, 0, IF n < 46340 THEN n ELSE 46340)

(* ----------------- JavaScript numbers: sqrt, Infinity, NaN ------------ *)

\* sqrt(q) for a rational q >= 0.
Fin(q) == [kind |-> "finite", sq |-> q]

Infinity == [kind |-> "Infinity", sq |-> Zero]

NaN == [kind |-> "NaN", sq |-> Zero]

\* The number i >= 0.
Num(i) == Fin(RInt(i * i))

IsZero(a) == a.kind = "finite" /\ a.sq = Zero

\* a * b on non-negative numbers (0 * Infinity is NaN).
JsMul(a, b) ==
    IF a.kind = "NaN" \/ b.kind = "NaN" THEN NaN
    ELSE IF a.kind = "Infinity" \/ b.kind = "Infinity"
         THEN (IF IsZero(a) \/ IsZero(b) THEN NaN ELSE Infinity)
         ELSE Fin(RMul(a.sq, b.sq))

\* a / b on non-negative numbers (x / 0 is Infinity, 0 / 0 is NaN).
JsDiv(a, b) ==
    IF a.kind = "NaN" \/ b.kind = "NaN" THEN NaN
    ELSE IF a.kind = "Infinity"
         THEN (IF b.kind = "Infinity" THEN NaN ELSE Infinity)
    ELSE IF b.kind = "Infinity" THEN Fin(Zero)
    ELSE IF IsZero(b) THEN (IF IsZero(a) THEN NaN ELSE Infinity)
    ELSE Fin(RDiv(a.sq, b.sq))

\* a < b (every comparison with NaN is false).
JsLt(a, b) ==
    /\ a.kind = "finite"
    /\ \/ b.kind = "Infinity"
       \/ b.kind = "finite" /\ RLt(a.sq, b.sq)

\* The rational value of sqrt(q) when numerator and denominator of q are
\* perfect squares (true of every pinch distance the model produces).
ToRat(a) == Rat(ISqrt(a.sq[1]), ISqrt(a.sq[2]))

IsExact(a) ==
    /\ a.kind = "finite"
    /\ ISqrt(a.sq[1]) * ISqrt(a.sq[1]) = a.sq[1]
    /\ ISqrt(a.sq[2]) * ISqrt(a.sq[2]) = a.sq[2]

\* Number.prototype.toFixed(1): the decimal string with one fraction digit
\* nearest to the number, the larger one on a tie; "Infinity" and "NaN" for
\* the non-finite values.  A decimal string is kept as its count of tenths
\* ("210.0" is tenths = 2100).
toFixed1(a) ==
    IF a.kind # "finite" THEN [kind |-> a.kind, tenths |-> 0]
    ELSE LET n == a.sq[1]
             d == a.sq[2]
             \* 100 * n / d = (10 * sqrt(n/d))^2 = whole + part / d
             whole == 100 * (n \div d) + (100 * (n % d)) \div d
             part == (100 * (n % d)) % d
             k == ISqrt(whole)
             \* 10 * sqrt(n/d) >= k + 1/2
             up == \/ whole - k * k - k >= 1
                   \/ whole - k * k - k = 0 /\ 4 * part >= d
         IN  [kind |-> "decimal", tenths |-> IF up THEN k + 1 ELSE k]

(* ------------------------------ helpers ------------------------------- *)

\* A point {x, y} with rational coordinates.
Pt(x, y) == [x |-> x, y |-> y]

\* Math.hypot(b.x - a.x, b.y - a.y)
distance(a, b) ==
    LET dx == RSub(b.x, a.x)
        dy == RSub(b.y, a.y)
    IN  Fin(RAdd(RMul(dx, dx), RMul(dy, dy)))

A4_WIDTH_MM == 210

\* Variation of getShoeSize whose comparisons are <=.
getShoeSize_Inclusive(mm) ==
    IF ~JsLt(Num(240), mm) /\ mm.kind # "NaN" THEN "UK 5"
    ELSE IF ~JsLt(Num(250), mm) /\ mm.kind # "NaN" THEN "UK 6"
    ELSE IF ~JsLt(Num(260), mm) /\ mm.kind # "NaN" THEN "UK 7"
    ELSE IF ~JsLt(Num(270), mm) /\ mm.kind # "NaN" THEN "UK 8"
    ELSE IF ~JsLt(Num(280), mm) /\ mm.kind # "NaN" THEN "UK 9"
    ELSE "UK 10+"

\* getShoeSize of revisions tapjs, tap, zoompan and scroll.
getShoeSize(mm) ==
    IF JsLt(mm, Num(240)) THEN "UK 5"
    ELSE IF JsLt(mm, Num(250)) THEN "UK 6"
    ELSE IF JsLt(mm, Num(260)) THEN "UK 7"
    ELSE IF JsLt(mm, Num(270)) THEN "UK 8"
    ELSE IF JsLt(mm, Num(280)) THEN "UK 9"
    ELSE "UK 10+"

\* Variation of getUKSize whose 250 and 260 tests are exchanged.
getUKSize_Unordered(mm) ==
    IF JsLt(mm, Num(240)) THEN 5
    ELSE IF JsLt(mm, Num(260)) THEN 6
    ELSE IF JsLt(mm, Num(250)) THEN 7
    ELSE IF JsLt(mm, Num(270)) THEN 8
    ELSE IF JsLt(mm, Num(280)) THEN 9
    ELSE 10

\* getUKSize of the magnifier revision.
getUKSize(mm) ==
    IF JsLt(mm, Num(240)) THEN 5
    ELSE IF JsLt(mm, Num(250)) THEN 6
    ELSE IF JsLt(mm, Num(260)) THEN 7
    ELSE IF JsLt(mm, Num(270)) THEN 8
    ELSE IF JsLt(mm, Num(280)) THEN 9
    ELSE 10

\* Variation of convertSize that shifts the IND size as well.
convertSize_ShiftIND(uk, system) ==
    CASE system = "US" -> uk + 1
      [] system = "IND" -> uk + 1
      [] OTHER -> uk

\* convertSize: switch (system) { "US": uk + 1; "IND": uk; default: uk }
convertSize(uk, system) ==
    CASE system = "US" -> uk + 1
      [] system = "IND" -> uk
      [] OTHER -> uk

(* ------------------------------- inputs ------------------------------- *)

Variants == {"tapjs", "tap", "zoompan", "magnifier", "scroll"}

\* The image files the user can pick: decoded size in pixels.
Images == { [id |-> 1, width |-> 400, height |-> 400] }

NoImage == [id |-> 0, width |-> 0, height |-> 0]

\* Layout width of the canvas element (style width: 100%) and of the
\* magnifier revision's container, in CSS pixels.
Layout == [width |-> 200]

\* canvas.getBoundingClientRect() of a canvas whose height follows its
\* intrinsic aspect ratio (canvas.width x canvas.height = the image's size).
CanvasRect(img) ==
    [width |-> Layout.width,
     height |-> (Layout.width * img.height) \div img.width]

\* Pointer positions relative to the canvas' top-left corner
\* (clientX - rect.left, clientY - rect.top) used by the direct-tap
\* revisions.
TapPos == { <<0, 0>>, <<50, 0>>, <<5, 25>>, <<5, 75>> }

\* Pointer positions used with the zoompan revision.
ZPPos == { <<0, 0>>, <<50, 0>> }

\* Pointer positions of the magnifier revision: on one line, so that every
\* distance between two of them is an integer.
MGPos == { <<0, 0>>, <<5, 0>> }

\* Pointer ids: one finger (or the mouse) in the full specification.
PointerIds == {1}

NoResult == [kind |-> "null"]

NoPoint == [kind |-> "null"]

NoDist == [kind |-> "null", sq |-> Zero]

(* ------------------------------- state -------------------------------- *)

VARIABLES
    variant,        \* the revision that runs
    image,          \* useState image (NoImage is null)
    decoding,       \* Image objects created by handleImageUpload, onload pending
    points,         \* useState points
    previewPoint,   \* useState previewPoint (magnifier; NoPoint is null)
    result,         \* useState result (NoResult is null)
    isMarking,      \* useState isMarking (zoompan, magnifier, scroll)
    transform,      \* useState transform (magnifier); scale and offset (zoompan)
    isPanning,      \* useRef isPanning (zoompan)
    lastPos,        \* useRef lastPos (zoompan)
    pointers,       \* useRef pointers: Map pointerId -> position (magnifier)
    lastPinchDist,  \* useRef lastPinchDist (magnifier; NoDist is null)
    effectPending,  \* the [points] effect is scheduled and has not run yet
    gestures,       \* pan / zoom steps taken so far (bounds the exploration)
    lastOp,         \* history: the last handler run and points.length when it started
    call            \* the size helper applied to two drawn lengths (SpecSize)

view == <<image, decoding>>
collector == <<points, previewPoint, result, isMarking>>
zpRefs == <<isPanning, lastPos>>
mgRefs == <<pointers, lastPinchDist>>
vars == <<variant, image, decoding, points, previewPoint, result, isMarking,
          transform, isPanning, lastPos, pointers, lastPinchDist,
          effectPending, gestures, lastOp, call>>

NoCall == [fn |-> "none"]

\* useState / useRef initial values of every revision.
InitState ==
    /\ image = NoImage
    /\ decoding = {}
    /\ points = <<>>
    /\ previewPoint = NoPoint
    /\ result = NoResult
    /\ isMarking = FALSE
    /\ transform = [scale |-> One, x |-> Zero, y |-> Zero]
    /\ isPanning = FALSE
    /\ lastPos = <<0, 0>>
    /\ pointers = <<>>
    /\ lastPinchDist = NoDist
    /\ effectPending = FALSE
    /\ gestures = 0
    /\ lastOp = [op |-> "mount", n |-> 0]

\* After mount: the mount-time run of the [points] effect has found
\* points.length = 0 and done nothing.
Init ==
    /\ variant \in Variants
    /\ InitState
    /\ call = NoCall

\* Handlers run between React commits, with no effect pending.
Idle(v) == variant = v /\ ~effectPending

\* The history record of a handler that starts now.
Op(name) == [op |-> name, n |-> Len(points)]

(* ---------------- measurement, as each revision computes it ----------- *)

\* Variation of footMM that scales by the A4 height, 297 mm.
footMM_A4Height(pts) ==
    LET paperWidthPx == distance(pts[1], pts[2])
        footPx == distance(pts[3], pts[4])
        mmPerPixel == JsDiv(Num(297), paperWidthPx)
    IN  JsMul(footPx, mmPerPixel)

\* tapjs, tap, scroll:
\*   mmPerPixel = 210 / paperWidthPx; footMM = footPx * mmPerPixel
footMM(pts) ==
    LET paperWidthPx == distance(pts[1], pts[2])
        footPx == distance(pts[3], pts[4])
        mmPerPixel == JsDiv(Num(210), paperWidthPx)
    IN  JsMul(footPx, mmPerPixel)

\* setResult({ mm: footMM.toFixed(1), size: getShoeSize(footMM) })
TapResult(pts) ==
    [kind |-> "result", mm |-> toFixed1(footMM(pts)), size |-> getShoeSize(footMM(pts))]

\* The image-space point of a direct tap: the offset inside the element
\* scaled by canvas.width / rect.width and canvas.height / rect.height.
TapCoords(pos) ==
    LET rect == CanvasRect(image)
    IN  Pt(RMul(RInt(pos[1]), Rat(image.width, rect.width)),
           RMul(RInt(pos[2]), Rat(image.height, rect.height)))

(* ------------------- revision "tap" (page.tsx 1-238) ------------------ *)

\* handleImageUpload: no file selected returns at once; otherwise a new
\* Image starts decoding.
Tap_handleImageUpload(file) ==
    /\ Idle("tap")
    /\ lastOp' = Op("handleImageUpload")
    /\ decoding' = (IF file = NoImage THEN decoding ELSE decoding \cup {file})
    /\ UNCHANGED <<variant, image, collector, transform, zpRefs, mgRefs,
                   effectPending, gestures, call>>

\* img.onload: without a 2d context nothing is set.
Tap_onload(img, ctxOk) ==
    /\ Idle("tap")
    /\ lastOp' = Op("onload")
    /\ img \in decoding
    /\ decoding' = decoding \ {img}
    /\ IF ctxOk
       THEN /\ image' = img
            /\ points' = <<>>
            /\ result' = NoResult
            /\ effectPending' = TRUE
       ELSE UNCHANGED <<image, points, result, effectPending>>
    /\ UNCHANGED <<variant, previewPoint, isMarking, transform, zpRefs, mgRefs,
                   gestures, call>>

\* Variation of handlePointerDown without the points.length >= 4 return.
Tap_handlePointerDown_NoCap(pos, ctxOk) ==
    /\ Idle("tap")
    /\ lastOp' = Op("handlePointerDown")
    /\ IF image = NoImage \/ Len(points) >= MaxLen \/ ~ctxOk
       THEN UNCHANGED <<points, effectPending>>
       ELSE /\ points' = Append(points, TapCoords(pos))
            /\ effectPending' = TRUE
    /\ UNCHANGED <<variant, view, previewPoint, result, isMarking, transform,
                   zpRefs, mgRefs, gestures, call>>

\* handlePointerDown: if (!image || points.length >= 4) return; no canvas or
\* no 2d context returns as well; otherwise the scaled point is appended.
Tap_handlePointerDown(pos, ctxOk) ==
    /\ Idle("tap")
    /\ lastOp' = Op("handlePointerDown")
    /\ IF image = NoImage \/ Len(points) >= 4 \/ ~ctxOk
       THEN UNCHANGED <<points, effectPending>>
       ELSE /\ points' = Append(points, TapCoords(pos))
            /\ effectPending' = TRUE
    /\ UNCHANGED <<variant, view, previewPoint, result, isMarking, transform,
                   zpRefs, mgRefs, gestures, call>>

\* useEffect(..., [points]): if (points.length !== 4) return; setResult(...)
Tap_effect ==
    /\ variant = "tap"
    /\ effectPending
    /\ UNCHANGED lastOp
    /\ effectPending' = FALSE
    /\ result' = (IF Len(points) # 4 THEN result ELSE TapResult(points))
    /\ UNCHANGED <<variant, view, points, previewPoint, isMarking, transform,
                   zpRefs, mgRefs, gestures, call>>

Tap_resetMeasurement(ctxOk) ==
    /\ Idle("tap")
    /\ lastOp' = Op("resetMeasurement")
    /\ IF image = NoImage \/ ~ctxOk
       THEN UNCHANGED <<points, result, effectPending>>
       ELSE /\ points' = <<>>
            /\ result' = NoResult
            /\ effectPending' = TRUE
    /\ UNCHANGED <<variant, view, previewPoint, isMarking, transform,
                   zpRefs, mgRefs, gestures, call>>

(* ----------------- revision "tapjs" (unnamed/part_000) ---------------- *)
\* The JavaScript original of "tap": the same handlers without the checks
\* for a missing canvas or 2d context.

TapJs_handleImageUpload(file) ==
    /\ Idle("tapjs")
    /\ lastOp' = Op("handleImageUpload")
    /\ decoding' = (IF file = NoImage THEN decoding ELSE decoding \cup {file})
    /\ UNCHANGED <<variant, image, collector, transform, zpRefs, mgRefs,
                   effectPending, gestures, call>>

TapJs_onload(img) ==
    /\ Idle("tapjs")
    /\ lastOp' = Op("onload")
    /\ img \in decoding
    /\ decoding' = decoding \ {img}
    /\ image' = img
    /\ points' = <<>>
    /\ result' = NoResult
    /\ effectPending' = TRUE
    /\ UNCHANGED <<variant, previewPoint, isMarking, transform, zpRefs, mgRefs,
                   gestures, call>>

TapJs_handlePointerDown(pos) ==
    /\ Idle("tapjs")
    /\ lastOp' = Op("handlePointerDown")
    /\ IF image = NoImage \/ Len(points) >= 4
       THEN UNCHANGED <<points, effectPending>>
       ELSE /\ points' = Append(points, TapCoords(pos))
            /\ effectPending' = TRUE
    /\ UNCHANGED <<variant, view, previewPoint, result, isMarking, transform,
                   zpRefs, mgRefs, gestures, call>>

\* useEffect(..., [points]): if (points.length === 4) setResult(...)
TapJs_effect ==
    /\ variant = "tapjs"
    /\ effectPending
    /\ UNCHANGED lastOp
    /\ effectPending' = FALSE
    /\ result' = (IF Len(points) = 4 THEN TapResult(points) ELSE result)
    /\ UNCHANGED <<variant, view, points, previewPoint, isMarking, transform,
                   zpRefs, mgRefs, gestures, call>>

TapJs_resetMeasurement ==
    /\ Idle("tapjs")
    /\ lastOp' = Op("resetMeasurement")
    /\ IF image = NoImage
       THEN UNCHANGED <<points, result, effectPending>>
       ELSE /\ points' = <<>>
            /\ result' = NoResult
            /\ effectPending' = TRUE
    /\ UNCHANGED <<variant, view, previewPoint, isMarking, transform,
                   zpRefs, mgRefs, gestures, call>>

(* ----------------- revision "scroll" (page.tsx 975-1252) -------------- *)

SC_handleImageUpload(file) ==
    /\ Idle("scroll")
    /\ lastOp' = Op("handleImageUpload")
    /\ decoding' = (IF file = NoImage THEN decoding ELSE decoding \cup {file})
    /\ UNCHANGED <<variant, image, collector, transform, zpRefs, mgRefs,
                   effectPending, gestures, call>>

SC_onload(img, ctxOk) ==
    /\ Idle("scroll")
    /\ lastOp' = Op("onload")
    /\ img \in decoding
    /\ decoding' = decoding \ {img}
    /\ IF ctxOk
       THEN /\ image' = img
            /\ points' = <<>>
            /\ result' = NoResult
            /\ isMarking' = FALSE
            /\ effectPending' = TRUE
       ELSE UNCHANGED <<image, points, result, isMarking, effectPending>>
    /\ UNCHANGED <<variant, previewPoint, transform, zpRefs, mgRefs, gestures, call>>

\* The "Start Marking" button, disabled={!image || isMarking}.
SC_startMarking ==
    /\ Idle("scroll")
    /\ lastOp' = Op("startMarking")
    /\ image # NoImage
    /\ ~isMarking
    /\ isMarking' = TRUE
    /\ UNCHANGED <<variant, view, points, previewPoint, result, transform,
                   zpRefs, mgRefs, effectPending, gestures, call>>

SC_handlePointerDown(pos, ctxOk) ==
    /\ Idle("scroll")
    /\ lastOp' = Op("handlePointerDown")
    /\ IF ~isMarking \/ image = NoImage \/ Len(points) >= 4 \/ ~ctxOk
       THEN UNCHANGED <<points, effectPending>>
       ELSE /\ points' = Append(points, TapCoords(pos))
            /\ effectPending' = TRUE
    /\ UNCHANGED <<variant, view, previewPoint, result, isMarking, transform,
                   zpRefs, mgRefs, gestures, call>>

\* useEffect(..., [points]): if (points.length === 4) { setIsMarking(false); setResult(...) }
SC_effect ==
    /\ variant = "scroll"
    /\ effectPending
    /\ UNCHANGED lastOp
    /\ effectPending' = FALSE
    /\ IF Len(points) = 4
       THEN /\ isMarking' = FALSE
            /\ result' = TapResult(points)
       ELSE UNCHANGED <<isMarking, result>>
    /\ UNCHANGED <<variant, view, points, previewPoint, transform, zpRefs, mgRefs,
                   gestures, call>>

\* Variation of resetMeasurement without setIsMarking(false).
SC_resetMeasurement_KeepMarking(ctxOk) ==
    /\ Idle("scroll")
    /\ lastOp' = Op("resetMeasurement")
    /\ IF image = NoImage \/ ~ctxOk
       THEN UNCHANGED <<points, result, isMarking, effectPending>>
       ELSE /\ points' = <<>>
            /\ result' = NoResult
            /\ effectPending' = TRUE
            /\ UNCHANGED isMarking
    /\ UNCHANGED <<variant, view, previewPoint, transform, zpRefs, mgRefs,
                   gestures, call>>

\* resetMeasurement: if (!image || !canvasRef.current) return; no 2d context
\* returns as well; setPoints([]), setResult(null), setIsMarking(false).
SC_resetMeasurement(ctxOk) ==
    /\ Idle("scroll")
    /\ lastOp' = Op("resetMeasurement")
    /\ IF image = NoImage \/ ~ctxOk
       THEN UNCHANGED <<points, result, isMarking, effectPending>>
       ELSE /\ points' = <<>>
            /\ result' = NoResult
            /\ isMarking' = FALSE
            /\ effectPending' = TRUE
    /\ UNCHANGED <<variant, view, previewPoint, transform, zpRefs, mgRefs,
                   gestures, call>>

(* ---------------- revision "zoompan" (page.tsx 240-475) -------------- *)

\* mm = (footPx * A4_WIDTH_MM) / paperPx
ZP_mm(pts) ==
    LET paperPx == distance(pts[1], pts[2])
        footPx == distance(pts[3], pts[4])
    IN  JsDiv(JsMul(footPx, Num(A4_WIDTH_MM)), paperPx)

\* setResult({ mm: mm.toFixed(1), size: getShoeSize(mm) })
ZP_result(pts) ==
    [kind |-> "result", mm |-> toFixed1(ZP_mm(pts)), size |-> getShoeSize(ZP_mm(pts))]

ZP_handleImageUpload(file) ==
    /\ Idle("zoompan")
    /\ lastOp' = Op("handleImageUpload")
    /\ decoding' = (IF file = NoImage THEN decoding ELSE decoding \cup {file})
    /\ UNCHANGED <<variant, image, collector, transform, zpRefs, mgRefs,
                   effectPending, gestures, call>>

\* img.onload: setImage, setPoints([]), setResult(null), setScale(1),
\* setOffset({0,0}); isMarking and the pan refs are not touched.
ZP_onload(img) ==
    /\ Idle("zoompan")
    /\ lastOp' = Op("onload")
    /\ img \in decoding
    /\ decoding' = decoding \ {img}
    /\ image' = img
    /\ points' = <<>>
    /\ result' = NoResult
    /\ transform' = [scale |-> One, x |-> Zero, y |-> Zero]
    /\ effectPending' = TRUE
    /\ UNCHANGED <<variant, previewPoint, isMarking, zpRefs, mgRefs, gestures, call>>

\* toImageCoords for a pointer at (ex, ey) from the element's corner:
\* (clientX - rect.left - offset.x) / scale
toImageCoordsAt(ex, ey) ==
    Pt(RDiv(RSub(ex, transform.x), transform.scale),
       RDiv(RSub(ey, transform.y), transform.scale))

toImageCoords(pos) == toImageCoordsAt(RInt(pos[1]), RInt(pos[2]))

\* redraw: ctx.setTransform(sc, 0, 0, sc, off.x, off.y), then the point is
\* drawn at (p.x, p.y); the magnifier revision computes the same canvas
\* position itself (sx = p.x * scale + x).
DrawnAt(p) ==
    [x |-> RAdd(RMul(p.x, transform.scale), transform.x),
     y |-> RAdd(RMul(p.y, transform.scale), transform.y)]

\* Where the canvas pixel c shows inside the element: the browser stretches
\* the canvas.width x canvas.height bitmap over the element's layout box.
OnSurface(c) ==
    LET rect == CanvasRect(image)
    IN  [x |-> RMul(c.x, Rat(rect.width, image.width)),
         y |-> RMul(c.y, Rat(rect.height, image.height))]

ZP_onPointerDown(pos) ==
    /\ Idle("zoompan")
    /\ lastOp' = Op("onPointerDown")
    /\ IF image = NoImage
       THEN UNCHANGED <<points, effectPending, zpRefs>>
       ELSE IF isMarking
            THEN /\ IF Len(points) >= 4
                    THEN UNCHANGED <<points, effectPending>>
                    ELSE /\ points' = Append(points, toImageCoords(pos))
                         /\ effectPending' = TRUE
                 /\ UNCHANGED zpRefs
            ELSE /\ isPanning' = TRUE
                 /\ lastPos' = pos
                 /\ UNCHANGED <<points, effectPending>>
    /\ UNCHANGED <<variant, view, previewPoint, result, isMarking, transform,
                   mgRefs, gestures, call>>

\* onPointerMove: a drag step adds the pointer's displacement to the offset.
\* `limit` bounds the number of pan / zoom steps explored.
\* Variation of onPointerMove whose pan also resets the zoom.
ZP_onPointerMove_ResetZoom(pos, limit) ==
    /\ Idle("zoompan")
    /\ lastOp' = Op("onPointerMove")
    /\ pos # lastPos
    /\ IF ~isPanning
       THEN UNCHANGED <<transform, lastPos, gestures>>
       ELSE /\ gestures < limit
            /\ lastPos' = pos
            /\ transform' = [scale |-> Rat(1, 2),
                             x |-> RAdd(transform.x, RInt(pos[1] - lastPos[1])),
                             y |-> RAdd(transform.y, RInt(pos[2] - lastPos[2]))]
            /\ gestures' = gestures + 1
    /\ UNCHANGED <<variant, view, collector, isPanning, mgRefs, effectPending, call>>

ZP_onPointerMove(pos, limit) ==
    /\ Idle("zoompan")
    /\ lastOp' = Op("onPointerMove")
    /\ pos # lastPos
    /\ IF ~isPanning
       THEN UNCHANGED <<transform, lastPos, gestures>>
       ELSE /\ gestures < limit
            /\ lastPos' = pos
            /\ transform' = [transform EXCEPT
                                !.x = RAdd(@, RInt(pos[1] - lastPos[1])),
                                !.y = RAdd(@, RInt(pos[2] - lastPos[2]))]
            /\ gestures' = gestures + 1
    /\ UNCHANGED <<variant, view, collector, isPanning, mgRefs, effectPending, call>>

ZP_onPointerUp ==
    /\ Idle("zoompan")
    /\ lastOp' = Op("onPointerUp")
    /\ isPanning' = FALSE
    /\ UNCHANGED <<variant, view, collector, transform, lastPos, mgRefs,
                   effectPending, gestures, call>>

\* Math.min(4, Math.max(1, s * factor))
ZP_clamp(s) == RMin(RInt(4), RMax(RInt(1), s))

\* zoom(factor): the + button passes 1.2, the - button 0.8.
ZP_zoom(factor, limit) ==
    /\ Idle("zoompan")
    /\ lastOp' = Op("zoom")
    /\ gestures < limit
    /\ transform' = [transform EXCEPT !.scale = ZP_clamp(RMul(@, factor))]
    /\ gestures' = gestures + 1
    /\ UNCHANGED <<variant, view, collector, zpRefs, mgRefs, effectPending, call>>

ZoomFactors == { Rat(12, 10), Rat(8, 10) }

\* The "Start Marking" button (never disabled in this revision).
ZP_startMarking ==
    /\ Idle("zoompan")
    /\ lastOp' = Op("startMarking")
    /\ isMarking' = TRUE
    /\ UNCHANGED <<variant, view, points, previewPoint, result, transform,
                   zpRefs, mgRefs, effectPending, gestures, call>>

\* useEffect(..., [points]): if (points.length !== 4) return;
\* setIsMarking(false); setResult(...)
ZP_effect ==
    /\ variant = "zoompan"
    /\ effectPending
    /\ UNCHANGED lastOp
    /\ effectPending' = FALSE
    /\ IF Len(points) # 4
       THEN UNCHANGED <<isMarking, result>>
       ELSE /\ isMarking' = FALSE
            /\ result' = ZP_result(points)
    /\ UNCHANGED <<variant, view, points, previewPoint, transform, zpRefs, mgRefs,
                   gestures, call>>

(* --------------- revision "magnifier" (page.tsx 477-973) -------------- *)

\* mm = (footPx * 210) / paperPx
MG_mm(pts) ==
    LET paperPx == distance(pts[1], pts[2])
        footPx == distance(pts[3], pts[4])
    IN  JsDiv(JsMul(footPx, Num(210)), paperPx)

\* Variation of handleImageUpload that clears the points when a file is
\* chosen, before it has loaded.
MG_handleImageUpload_ClearEarly(file) ==
    /\ Idle("magnifier")
    /\ lastOp' = Op("handleImageUpload")
    /\ decoding' = (IF file = NoImage THEN decoding ELSE decoding \cup {file})
    /\ points' = (IF file = NoImage THEN points ELSE <<>>)
    /\ effectPending' = (file # NoImage)
    /\ UNCHANGED <<variant, image, previewPoint, result, isMarking, transform,
                   zpRefs, mgRefs, gestures, call>>

MG_handleImageUpload(file) ==
    /\ Idle("magnifier")
    /\ lastOp' = Op("handleImageUpload")
    /\ decoding' = (IF file = NoImage THEN decoding ELSE decoding \cup {file})
    /\ UNCHANGED <<variant, image, collector, transform, zpRefs, mgRefs,
                   effectPending, gestures, call>>

\* fitScale = container.clientWidth / img.width
fitScale(img) == Rat(Layout.width, img.width)

\* img.onload: setTransform({fitScale, 0, 0}), setImage, setPoints([]),
\* setPreviewPoint(null), setResult(null), setIsMarking(false).
MG_onload(img) ==
    /\ Idle("magnifier")
    /\ lastOp' = Op("onload")
    /\ img \in decoding
    /\ decoding' = decoding \ {img}
    /\ transform' = [scale |-> fitScale(img), x |-> Zero, y |-> Zero]
    /\ image' = img
    /\ points' = <<>>
    /\ previewPoint' = NoPoint
    /\ result' = NoResult
    /\ isMarking' = FALSE
    /\ effectPending' = TRUE
    /\ UNCHANGED <<variant, zpRefs, mgRefs, gestures, call>>

\* getImageCoords: the position inside the element is scaled to canvas
\* pixels (cx, cy), then mapped back through the transform.
getImageCoordsAt(ex, ey) ==
    LET rect == CanvasRect(image)
        cx == RMul(RDiv(ex, RInt(rect.width)), RInt(image.width))
        cy == RMul(RDiv(ey, RInt(rect.height)), RInt(image.height))
    IN  Pt(RDiv(RSub(cx, transform.x), transform.scale),
           RDiv(RSub(cy, transform.y), transform.scale))

getImageCoords(pos) == getImageCoordsAt(RInt(pos[1]), RInt(pos[2]))

\* pointers.current.set(id, pos) / .delete(id)
MapSet(m, id, pos) ==
    [i \in DOMAIN m \cup {id} |-> IF i = id THEN pos ELSE m[i]]

MapDelete(m, id) == [i \in DOMAIN m \ {id} |-> m[i]]

\* Variation of onPointerDown that commits the point at once while marking.
MG_onPointerDown_Commit(id, pos) ==
    /\ Idle("magnifier")
    /\ lastOp' = Op("onPointerDown")
    /\ id \notin DOMAIN pointers
    /\ pointers' = MapSet(pointers, id, pos)
    /\ IF isMarking /\ Len(points) < MaxLen
       THEN /\ points' = Append(points, getImageCoords(pos))
            /\ effectPending' = TRUE
       ELSE UNCHANGED <<points, effectPending>>
    /\ UNCHANGED <<variant, view, previewPoint, result, isMarking, transform,
                   zpRefs, lastPinchDist, gestures, call>>

\* A pointerdown is delivered for a pointer that is not down yet.
MG_onPointerDown(id, pos) ==
    /\ Idle("magnifier")
    /\ lastOp' = Op("onPointerDown")
    /\ id \notin DOMAIN pointers
    /\ pointers' = MapSet(pointers, id, pos)
    /\ previewPoint' = (IF ~isMarking THEN previewPoint
                        ELSE [kind |-> "point", p |-> getImageCoords(pos)])
    /\ UNCHANGED <<variant, view, points, result, isMarking, transform, zpRefs,
                   lastPinchDist, effectPending, gestures, call>>

\* Variation of the clamp without the upper limit 6.
MG_clamp_NoMax(s) == RMax(Rat(8, 10), s)

\* Math.min(6, Math.max(0.8, s))
MG_clamp(s) == RMin(RInt(6), RMax(Rat(8, 10), s))

\* distance(pts[0], pts[1]) of the two active pointers.
PinchDist(m) ==
    LET a == CHOOSE i \in DOMAIN m : TRUE
        b == CHOOSE i \in DOMAIN m : i # a
    IN  distance(Pt(RInt(m[a][1]), RInt(m[a][2])), Pt(RInt(m[b][1]), RInt(m[b][2])))

\* if (lastPinchDist.current): set, and neither 0 nor NaN.
Truthy(d) == d.kind = "Infinity" \/ (d.kind = "finite" /\ d.sq # Zero)

\* onPointerMove.  `limit` bounds the number of pan / zoom steps explored.
MG_onPointerMove(id, pos, limit) ==
    /\ Idle("magnifier")
    /\ lastOp' = Op("onPointerMove")
    /\ IF id \notin DOMAIN pointers
       THEN UNCHANGED <<pointers, previewPoint, transform, lastPinchDist, gestures>>
       ELSE LET prev == pointers[id]
                after == MapSet(pointers, id, pos)
                size == Cardinality(DOMAIN after)
                d == PinchDist(after)
            IN  /\ pos # prev
                /\ pointers' = after
                /\ IF isMarking /\ size = 1
                   THEN /\ previewPoint' = [kind |-> "point", p |-> getImageCoords(pos)]
                        /\ UNCHANGED <<transform, lastPinchDist, gestures>>
                   ELSE IF size = 1
                   THEN /\ gestures < limit
                        /\ transform' = [transform EXCEPT
                                            !.x = RAdd(@, RInt(pos[1] - prev[1])),
                                            !.y = RAdd(@, RInt(pos[2] - prev[2]))]
                        /\ gestures' = gestures + 1
                        /\ UNCHANGED <<previewPoint, lastPinchDist>>
                   ELSE IF size = 2
                   THEN /\ IF Truthy(lastPinchDist)
                           THEN /\ gestures < limit
                                /\ transform' = [transform EXCEPT !.scale =
                                       MG_clamp(RMul(@, ToRat(JsDiv(d, lastPinchDist))))]
                                /\ gestures' = gestures + 1
                           ELSE UNCHANGED <<transform, gestures>>
                        /\ lastPinchDist' = d
                        /\ UNCHANGED previewPoint
                   ELSE UNCHANGED <<previewPoint, transform, lastPinchDist, gestures>>
    /\ UNCHANGED <<variant, view, points, result, isMarking, zpRefs,
                   effectPending, call>>

\* onPointerUp, also bound to onPointerCancel.
\* Variation of onPointerUp that keeps the pinch reference distance.
MG_onPointerUp_KeepDist(id) ==
    /\ Idle("magnifier")
    /\ lastOp' = Op("onPointerUp")
    /\ pointers' = MapDelete(pointers, id)
    /\ UNCHANGED <<variant, view, collector, transform, zpRefs, lastPinchDist,
                   effectPending, gestures, call>>

MG_onPointerUp(id) ==
    /\ Idle("magnifier")
    /\ lastOp' = Op("onPointerUp")
    /\ pointers' = MapDelete(pointers, id)
    /\ lastPinchDist' = (IF Cardinality(DOMAIN pointers') < 2 THEN NoDist
                         ELSE lastPinchDist)
    /\ UNCHANGED <<variant, view, collector, transform, zpRefs,
                   effectPending, gestures, call>>

\* Variation of confirmPoint that puts the new point first.
MG_confirmPoint_Prepend ==
    /\ Idle("magnifier")
    /\ lastOp' = Op("confirmPoint")
    /\ Len(points) < MaxLen
    /\ IF previewPoint = NoPoint
       THEN UNCHANGED <<points, previewPoint, effectPending>>
       ELSE /\ points' = <<previewPoint.p>> \o points
            /\ previewPoint' = NoPoint
            /\ effectPending' = TRUE
    /\ UNCHANGED <<variant, view, result, isMarking, transform, zpRefs, mgRefs,
                   gestures, call>>

\* confirmPoint: if (!previewPoint) return; append it; clear the preview.
\* (MaxLen bounds the exploration; the code has no length check here.)
MG_confirmPoint ==
    /\ Idle("magnifier")
    /\ lastOp' = Op("confirmPoint")
    /\ Len(points) < MaxLen
    /\ IF previewPoint = NoPoint
       THEN UNCHANGED <<points, previewPoint, effectPending>>
       ELSE /\ points' = Append(points, previewPoint.p)
            /\ previewPoint' = NoPoint
            /\ effectPending' = TRUE
    /\ UNCHANGED <<variant, view, result, isMarking, transform, zpRefs, mgRefs,
                   gestures, call>>

\* Variation of undoLast without setResult(null).
MG_undoLast_KeepResult ==
    /\ Idle("magnifier")
    /\ lastOp' = Op("undoLast")
    /\ Len(points) # 0
    /\ points' = SubSeq(points, 1, Len(points) - 1)
    /\ effectPending' = TRUE
    /\ UNCHANGED <<variant, view, previewPoint, result, isMarking, transform,
                   zpRefs, mgRefs, gestures, call>>

\* undoLast (the Undo button is disabled while points is empty).
MG_undoLast ==
    /\ Idle("magnifier")
    /\ lastOp' = Op("undoLast")
    /\ Len(points) # 0
    /\ points' = SubSeq(points, 1, Len(points) - 1)
    /\ result' = NoResult
    /\ effectPending' = TRUE
    /\ UNCHANGED <<variant, view, previewPoint, isMarking, transform, zpRefs,
                   mgRefs, gestures, call>>

\* The "Start Marking" button, disabled={!image}.
MG_startMarking ==
    /\ Idle("magnifier")
    /\ lastOp' = Op("startMarking")
    /\ image # NoImage
    /\ isMarking' = TRUE
    /\ UNCHANGED <<variant, view, points, previewPoint, result, transform,
                   zpRefs, mgRefs, effectPending, gestures, call>>

\* Variation of the effect that stores the result and leaves isMarking alone.
MG_effect_KeepMarking ==
    /\ variant = "magnifier"
    /\ effectPending
    /\ UNCHANGED lastOp
    /\ effectPending' = FALSE
    /\ IF Len(points) = 4
       THEN /\ result' = [kind |-> "result", mm |-> MG_mm(points)]
            /\ UNCHANGED isMarking
       ELSE UNCHANGED <<isMarking, result>>
    /\ UNCHANGED <<variant, view, points, previewPoint, transform, zpRefs, mgRefs,
                   gestures, call>>

\* useEffect(..., [points]): if (points.length === 4) { setIsMarking(false);
\* setResult({ mm }); setShowModal(true) }
MG_effect ==
    /\ variant = "magnifier"
    /\ effectPending
    /\ UNCHANGED lastOp
    /\ effectPending' = FALSE
    /\ IF Len(points) = 4
       THEN /\ isMarking' = FALSE
            /\ result' = [kind |-> "result", mm |-> MG_mm(points)]
       ELSE UNCHANGED <<isMarking, result>>
    /\ UNCHANGED <<variant, view, points, previewPoint, transform, zpRefs, mgRefs,
                   gestures, call>>

Next ==
    \/ \E file \in Images \cup {NoImage} : Tap_handleImageUpload(file)
    \/ \E img \in Images, ctxOk \in BOOLEAN : Tap_onload(img, ctxOk)
    \/ \E pos \in TapPos, ctxOk \in BOOLEAN : Tap_handlePointerDown(pos, ctxOk)
    \/ Tap_effect
    \/ \E ctxOk \in BOOLEAN : Tap_resetMeasurement(ctxOk)
    \/ \E file \in Images \cup {NoImage} : TapJs_handleImageUpload(file)
    \/ \E img \in Images : TapJs_onload(img)
    \/ \E pos \in TapPos : TapJs_handlePointerDown(pos)
    \/ TapJs_effect
    \/ TapJs_resetMeasurement
    \/ \E file \in Images \cup {NoImage} : SC_handleImageUpload(file)
    \/ \E img \in Images, ctxOk \in BOOLEAN : SC_onload(img, ctxOk)
    \/ SC_startMarking
    \/ \E pos \in TapPos, ctxOk \in BOOLEAN : SC_handlePointerDown(pos, ctxOk)
    \/ SC_effect
    \/ \E ctxOk \in BOOLEAN : SC_resetMeasurement(ctxOk)
    \/ \E file \in Images \cup {NoImage} : ZP_handleImageUpload(file)
    \/ \E img \in Images : ZP_onload(img)
    \/ \E pos \in ZPPos : ZP_onPointerDown(pos)
    \/ \E pos \in ZPPos : ZP_onPointerMove(pos, MaxGestures)
    \/ ZP_onPointerUp
    \/ \E f \in ZoomFactors : ZP_zoom(f, MaxGestures)
    \/ ZP_startMarking
    \/ ZP_effect
    \/ \E file \in Images \cup {NoImage} : MG_handleImageUpload(file)
    \/ \E img \in Images : MG_onload(img)
    \/ \E id \in PointerIds, pos \in MGPos : MG_onPointerDown(id, pos)
    \/ \E id \in PointerIds, pos \in MGPos : MG_onPointerMove(id, pos, MaxPan)
    \/ \E id \in PointerIds : MG_onPointerUp(id)
    \/ MG_confirmPoint
    \/ MG_undoLast
    \/ MG_startMarking
    \/ MG_effect

Spec == Init /\ [][Next]_vars

(* ----------------- zooming: deep button zoom and pinch ---------------- *)

\* Two fingers.
ZoomPointerIds == {1, 2}

\* Finger positions on one line: the distances 0, 1, 12 and 13 give the
\* pinch factors 0, 1/13, 1/12, 12/13, 13/12, 12 and 13.
ZoomPos == { <<0, 0>>, <<1, 0>>, <<13, 0>> }

InitZoom ==
    /\ variant \in { "zoompan", "magnifier" }
    /\ InitState
    /\ call = NoCall

NextZoom ==
    \/ \E file \in Images : ZP_handleImageUpload(file)
    \/ \E img \in Images : ZP_onload(img)
    \/ \E f \in ZoomFactors : ZP_zoom(f, MaxZoomDeep)
    \/ ZP_effect
    \/ \E file \in Images : MG_handleImageUpload(file)
    \/ \E img \in Images : MG_onload(img)
    \/ MG_startMarking
    \/ \E id \in ZoomPointerIds, pos \in ZoomPos : MG_onPointerDown(id, pos)
    \/ \E id \in ZoomPointerIds, pos \in ZoomPos : MG_onPointerMove(id, pos, MaxPinch)
    \/ \E id \in ZoomPointerIds : MG_onPointerUp(id)
    \/ MG_effect

SpecZoom == InitZoom /\ [][NextZoom]_vars

(* ------------- panning and zooming, both zooming revisions ----------- *)

InitPanZoom ==
    /\ variant \in { "zoompan", "magnifier" }
    /\ InitState
    /\ call = NoCall

NextPanZoom ==
    \/ \E file \in Images : ZP_handleImageUpload(file)
    \/ \E img \in Images : ZP_onload(img)
    \/ ZP_startMarking
    \/ \E pos \in ZPPos : ZP_onPointerDown(pos)
    \/ \E pos \in ZPPos : ZP_onPointerMove(pos, MaxGestures)
    \/ ZP_onPointerUp
    \/ \E f \in ZoomFactors : ZP_zoom(f, MaxGestures)
    \/ ZP_effect
    \/ \E file \in Images : MG_handleImageUpload(file)
    \/ \E img \in Images : MG_onload(img)
    \/ MG_startMarking
    \/ \E id \in ZoomPointerIds, pos \in ZoomPos : MG_onPointerDown(id, pos)
    \/ \E id \in ZoomPointerIds, pos \in ZoomPos : MG_onPointerMove(id, pos, MaxPinch)
    \/ \E id \in ZoomPointerIds : MG_onPointerUp(id)
    \/ MG_effect

SpecPanZoom == InitPanZoom /\ [][NextPanZoom]_vars

(* ------------------ pinching with up to three fingers ---------------- *)

\* Three fingers: a third one can go down during a pinch.
PinchPointerIds == {1, 2, 3}

InitPinch ==
    /\ variant = "magnifier"
    /\ InitState
    /\ call = NoCall

NextPinch ==
    \/ \E file \in Images : MG_handleImageUpload(file)
    \/ \E img \in Images : MG_onload(img)
    \/ MG_effect
    \/ \E id \in PinchPointerIds, pos \in ZoomPos : MG_onPointerDown(id, pos)
    \/ \E id \in PinchPointerIds, pos \in ZoomPos : MG_onPointerMove(id, pos, MaxPinch)
    \/ \E id \in PinchPointerIds : MG_onPointerUp(id)

SpecPinch == InitPinch /\ [][NextPinch]_vars

(* ---------------- two files selected one after the other ------------- *)

\* The file selected first and the file selected second.
FirstImage == [id |-> 1, width |-> 400, height |-> 400]
SecondImage == [id |-> 2, width |-> 200, height |-> 200]

\* The user's selections: FirstImage once, at the start; SecondImage after
\* it, while it decodes or once it is installed.
SelectedInTurn(file) ==
    \/ /\ file = FirstImage
       /\ image = NoImage
       /\ decoding = {}
    \/ /\ file = SecondImage
       /\ FirstImage \in decoding \/ image = FirstImage
       /\ SecondImage \notin decoding

InitLoad ==
    /\ variant \in { "tap", "magnifier" }
    /\ InitState
    /\ call = NoCall

NextLoad ==
    \/ \E file \in { FirstImage, SecondImage } :
          SelectedInTurn(file) /\ Tap_handleImageUpload(file)
    \/ \E img \in { FirstImage, SecondImage } : Tap_onload(img, TRUE)
    \/ \E pos \in TapPos : Tap_handlePointerDown(pos, TRUE)
    \/ Tap_effect
    \/ \E file \in { FirstImage, SecondImage } :
          SelectedInTurn(file) /\ MG_handleImageUpload(file)
    \/ \E img \in { FirstImage, SecondImage } : MG_onload(img)
    \/ MG_startMarking
    \/ \E pos \in MGPos : MG_onPointerDown(1, pos)
    \/ MG_onPointerUp(1)
    \/ MG_confirmPoint
    \/ MG_effect

SpecLoad == InitLoad /\ [][NextLoad]_vars

(* ------------------------- the instruction line ---------------------- *)

\* steps[step] ?? "" : arrays are indexed from 0.
StepText(steps, step) == IF step + 1 \in DOMAIN steps THEN steps[step + 1] ELSE ""

\* getInstruction of each revision; the texts are the source's, without the
\* check-mark sign and with straight quotes.
getInstruction(v, step, marking) ==
    CASE v = "tapjs" ->
            StepText(<<"Step 1: Tap LEFT edge of A4 paper",
                       "Step 2: Tap RIGHT edge of A4 paper",
                       "Step 3: Tap TOE of foot",
                       "Step 4: Tap HEEL of foot",
                       "Measurement complete">>, step)
      [] v = "tap" ->
            StepText(<<"Step 1: Tap LEFT edge of A4 paper",
                       "Step 2: Tap RIGHT edge of A4 paper",
                       "Step 3: Tap TOE of foot",
                       "Step 4: Tap HEEL of foot",
                       "Measurement completed">>, step)
      [] v = "zoompan" ->
            IF ~marking
            THEN "Zoom & pan image. Tap 'Start Marking' when ready."
            ELSE StepText(<<"Tap LEFT edge of A4 paper",
                            "Tap RIGHT edge of A4 paper",
                            "Tap TOE of foot",
                            "Tap HEEL of foot",
                            "Done">>, step)
      [] v = "magnifier" ->
            IF ~marking
            THEN "Pinch to zoom - Drag to move - Tap Start Marking"
            ELSE StepText(<<"Select LEFT edge of A4 paper",
                            "Select RIGHT edge of A4 paper",
                            "Select TOE of foot",
                            "Select HEEL of foot",
                            "Measurement complete">>, step)
      [] v = "scroll" ->
            IF ~marking
            THEN "Scroll & adjust image. Tap 'Start Marking' when ready."
            ELSE StepText(<<"Step 1: Tap LEFT edge of A4 paper",
                            "Step 2: Tap RIGHT edge of A4 paper",
                            "Step 3: Tap TOE of foot",
                            "Step 4: Tap HEEL of foot",
                            "Measurement complete">>, step)

\* The line the page renders: {getInstruction(points.length, isMarking)}.
Instruction == getInstruction(variant, Len(points), isMarking)

(* ------------------- the size helpers, applied alone ------------------ *)

\* Foot lengths in tenths of a millimetre: every threshold, the values one
\* tenth below and above it, and the two ends.
MmTenths ==
    { 0, 2399, 2400, 2401, 2499, 2500, 2501, 2599, 2600, 2601,
      2699, 2700, 2701, 2799, 2800, 2801, 3000 }

\* The numbers handed to the helpers, Infinity and NaN included.
MmInputs == { Fin(Rat(t * t, 100)) : t \in MmTenths } \cup { Infinity, NaN }

\* Two lengths are drawn; no helper has been applied yet.
InitSize ==
    /\ variant = "none"
    /\ InitState
    /\ \E a \in MmInputs, b \in MmInputs : call = [fn |-> "none", a |-> a, b |-> b]

Call_getShoeSize ==
    /\ variant = "none"
    /\ call.fn = "none"
    /\ call' = [fn |-> "getShoeSize", a |-> call.a, b |-> call.b,
                outA |-> getShoeSize(call.a), outB |-> getShoeSize(call.b)]
    /\ UNCHANGED <<variant, view, collector, transform, zpRefs, mgRefs,
                   effectPending, gestures, lastOp>>

Call_getUKSize ==
    /\ variant = "none"
    /\ call.fn = "none"
    /\ call' = [fn |-> "getUKSize", a |-> call.a, b |-> call.b,
                outA |-> getUKSize(call.a), outB |-> getUKSize(call.b)]
    /\ UNCHANGED <<variant, view, collector, transform, zpRefs, mgRefs,
                   effectPending, gestures, lastOp>>

\* type SizeSystem = "UK" | "US" | "IND"
SizeSystems == { "UK", "US", "IND" }

\* The UK sizes getUKSize returns.
UKSizes == 5..10

Call_convertSize(uk, system) ==
    /\ variant = "none"
    /\ call.fn = "none"
    /\ call' = [fn |-> "convertSize", uk |-> uk, system |-> system,
                out |-> convertSize(uk, system)]
    /\ UNCHANGED <<variant, view, collector, transform, zpRefs, mgRefs,
                   effectPending, gestures, lastOp>>

NextSize ==
    \/ Call_getShoeSize
    \/ Call_getUKSize
    \/ \E uk \in UKSizes, system \in SizeSystems : Call_convertSize(uk, system)

SpecSize == InitSize /\ [][NextSize]_vars

(* ------------------------------ properties ---------------------------- *)

\* The revisions that commit a point on pointer-down, without a preview.
DirectTap == { "tapjs", "tap", "zoompan", "scroll" }

\* No effect is pending: the state the user sees between two events.
Settled == ~effectPending

\* One pointer-down event of a direct-tap revision.
DirectTapPointerDown ==
    \/ \E pos \in TapPos, ctxOk \in BOOLEAN : Tap_handlePointerDown(pos, ctxOk)
    \/ \E pos \in TapPos : TapJs_handlePointerDown(pos)
    \/ \E pos \in TapPos, ctxOk \in BOOLEAN : SC_handlePointerDown(pos, ctxOk)
    \/ \E pos \in ZPPos : ZP_onPointerDown(pos)

\* C1: in the magnifier revision the committed point list never holds more
\* than 4 points (a confirm with 4 points already present would have to leave
\* the list alone).  The code breaks this: Start Marking stays enabled with 4
\* points and confirmPoint has no length check.
C1_AtMostFourPoints == variant = "magnifier" => Len(points) <= 4

\* C2: in the direct-tap revisions a pointer-down received while 4 points
\* exist leaves points and result unchanged, whatever isMarking is.
C2_PointerDownIgnoredAtFour ==
    [][ (Len(points) = 4 /\ DirectTapPointerDown)
            => (points' = points /\ result' = result) ]_vars

\* C2 witness: a pointer-down handler has run with 4 points present and a
\* result stored, and both are still there.
C2_Witness ==
    /\ variant \in DirectTap
    /\ lastOp.op \in { "handlePointerDown", "onPointerDown" }
    /\ lastOp.n = 4
    /\ Len(points) = 4
    /\ result # NoResult

\* C3: with 4 points whose two paper points coincide, the settled state holds
\* no result or an explicit error, never a value obtained by dividing by the
\* zero paper distance.  The code stores Infinity or NaN.
C3_ZeroPaperRejected ==
    (Settled /\ Len(points) = 4 /\ IsZero(distance(points[1], points[2])))
        => (result = NoResult \/ result.kind = "error")

\* The measurement formula of the specification:
\* distance(points[2], points[3]) * 210 / distance(points[0], points[1]).
FootLengthMm(pts) ==
    JsDiv(JsMul(distance(pts[3], pts[4]), Num(210)), distance(pts[1], pts[2]))

\* The decimal string with `tenths` tenths denotes exactly the number a.
DenotesExactly(tenths, a) ==
    a.kind = "finite" /\ a.sq = Rat(tenths * tenths, 100)

\* floor(400 q) and ceiling(400 q) of a rational q >= 0.
Floor400(q) == 400 * (q[1] \div q[2]) + (400 * (q[1] % q[2])) \div q[2]

Ceil400(q) == Floor400(q) + (IF (400 * (q[1] % q[2])) % q[2] = 0 THEN 0 ELSE 1)

\* `tenths` tenths is a nearest one-decimal value of the number a >= 0:
\* (2 tenths - 1)^2 <= 400 a^2 <= (2 tenths + 1)^2.
NearestTenth(tenths, a) ==
    /\ a.kind = "finite"
    /\ tenths >= 0
    /\ tenths = 0 \/ (2 * tenths - 1) * (2 * tenths - 1) <= Floor400(a.sq)
    /\ Ceil400(a.sq) <= (2 * tenths + 1) * (2 * tenths + 1)

\* The points of the worked example: [(0,0),(100,0),(10,50),(10,150)].
ExamplePoints ==
    << Pt(RInt(0), RInt(0)), Pt(RInt(100), RInt(0)),
       Pt(RInt(10), RInt(50)), Pt(RInt(10), RInt(150)) >>

\* 4 committed points with a non-zero paper distance, measured.
Measured ==
    /\ Settled
    /\ Len(points) = 4
    /\ ~IsZero(distance(points[1], points[2]))

\* C4 as stated: the stored foot length equals the formula's value.  The
\* direct-tap revisions store footMM.toFixed(1), so this fails whenever the
\* value has more than one decimal.
C4_StoredEqualsFormula ==
    (variant \in DirectTap /\ Measured)
        => /\ result # NoResult
           /\ result.mm.kind = "decimal"
           /\ DenotesExactly(result.mm.tenths, FootLengthMm(points))

\* C4 amended: the direct-tap revisions store the formula's value rounded to
\* one decimal and classify the unrounded value; the magnifier revision
\* stores the unrounded value; the worked example gives 210.0 and "UK 5".
C4_StoredIsRoundedFormula ==
    Measured =>
        /\ result # NoResult
        /\ variant \in DirectTap =>
              /\ result.mm.kind = "decimal"
              /\ NearestTenth(result.mm.tenths, FootLengthMm(points))
              /\ result.size = getShoeSize(FootLengthMm(points))
              /\ points = ExamplePoints =>
                    result.mm.tenths = 2100 /\ result.size = "UK 5"
        /\ variant = "magnifier" => result.mm = FootLengthMm(points)

\* C4 witness: the worked example has been measured by a direct-tap revision.
C4_Witness ==
    /\ variant \in DirectTap
    /\ Measured
    /\ points = ExamplePoints
    /\ result # NoResult
    /\ result.mm.tenths = 2100
    /\ result.size = "UK 5"

\* C8: in the magnifier revision the scale lies within [0.8, 6] in every
\* reachable state.  The fit-to-width scale set by the image load is not
\* clamped, so the state right after a load breaks this.
C8_ScaleInRange ==
    variant = "magnifier"
        => RLe(Rat(8, 10), transform.scale) /\ RLe(transform.scale, RInt(6))

\* The revisions with a marking flag.
Flagged == { "zoompan", "magnifier", "scroll" }

\* What C9 asks of one step of a revision with a marking flag.
C9_Step ==
    variant \in Flagged =>
        /\ (points' # points /\ Len(points') = 4) => effectPending'
        /\ (effectPending /\ Len(points) = 4) =>
              /\ points' = points
              /\ ~effectPending'
              /\ ~isMarking'
              /\ result' # NoResult

\* C9: when the committed list has just reached length 4 the effect is
\* scheduled, and the only step taken from there is the effect, which keeps
\* the 4 points, sets isMarking to false and stores a result; so no point is
\* appended in between.
C9_EffectFollowsFourthPoint == [][C9_Step]_vars

\* C9 witness: the 4th point was placed while marking, and the effect has run.
C9_Witness ==
    /\ variant \in { "magnifier", "scroll" }
    /\ lastOp.op \in { "confirmPoint", "handlePointerDown" }
    /\ lastOp.n = 3
    /\ Len(points) = 4
    /\ Settled
    /\ ~isMarking
    /\ result # NoResult

\* C10: after an undo, once settled, no result is stored.  From 5 points
\* (reachable, see C1) the undo leaves 4 points and the effect stores a
\* result again.
C10_UndoClearsResult ==
    (variant = "magnifier" /\ lastOp.op = "undoLast" /\ Settled)
        => (Len(points) = lastOp.n - 1 /\ result = NoResult)

\* The order of the size buckets: 5 < 6 < 7 < 8 < 9 < 10(+).
ShoeRank ==
    [ s \in { "UK 5", "UK 6", "UK 7", "UK 8", "UK 9", "UK 10+" } |->
        CASE s = "UK 5" -> 5
          [] s = "UK 6" -> 6
          [] s = "UK 7" -> 7
          [] s = "UK 8" -> 8
          [] s = "UK 9" -> 9
          [] s = "UK 10+" -> 10 ]

\* The bucket a helper returned, as its number.
Rank(size) == IF call.fn = "getShoeSize" THEN ShoeRank[size] ELSE size

\* The threshold a bucket starts at: 240 for 6, ..., 280 for 10.
Threshold(k) == Num(240 + 10 * (k - 6))

\* A helper has been applied to the two drawn lengths.
Applied == call.fn \in { "getShoeSize", "getUKSize" }

\* C5: bucketing is monotonic (mm1 < mm2 gives bucket(mm1) <= bucket(mm2)),
\* and each threshold 240, ..., 280 is classified into the next-higher
\* bucket 6, ..., 10.
C5_BucketsMonotonic ==
    Applied =>
        /\ JsLt(call.a, call.b) => Rank(call.outA) <= Rank(call.outB)
        /\ \A k \in 6..10 : call.a = Threshold(k) => Rank(call.outA) = k

\* C5 witness: 240 < 250 have been bucketed as 6 and 7.
C5_Witness ==
    /\ call.fn = "getUKSize"
    /\ call.a = Num(240) /\ call.b = Num(250)
    /\ call.outA = 6 /\ call.outB = 7

\* C6 as stated: a length equal to a threshold is classified into the lower
\* of the two adjacent buckets (240 is size 5).  The comparisons are strict,
\* so this fails.
C6_ThresholdInLowerBucket ==
    Applied => \A k \in 6..10 : call.a = Threshold(k) => Rank(call.outA) = k - 1

\* C6 amended: a length equal to a threshold is classified into the higher
\* of the two adjacent buckets, the one of the lengths just above it, and not
\* into the one of the lengths just below it.
C6_ThresholdInHigherBucket ==
    Applied =>
        \A k \in 6..10 :
            /\ (call.a = Threshold(k) /\ JsLt(call.a, call.b) /\ JsLt(call.b, Threshold(k + 1)))
                   => call.outA = call.outB
            /\ (call.b = Threshold(k) /\ JsLt(call.a, call.b))
                   => call.outA # call.outB

\* C6 witness: 240 and 240.1 are both "UK 6".
C6_Witness ==
    /\ call.fn = "getShoeSize"
    /\ call.a = Num(240) /\ call.b = Fin(Rat(2401 * 2401, 100))
    /\ call.outA = "UK 6" /\ call.outB = "UK 6"

\* One click on the + or - button of the zoompan revision.
ButtonZoom == \E f \in ZoomFactors : ZP_zoom(f, MaxZoomDeep)

\* One pinch sample of the magnifier revision: a move with two pointers down
\* and a previous pinch distance to compare with.
PinchSample ==
    /\ \E id \in ZoomPointerIds, pos \in ZoomPos : MG_onPointerMove(id, pos, MaxPinch)
    /\ Cardinality(DOMAIN pointers') = 2
    /\ Truthy(lastPinchDist)

\* What C7 asks of one step.
C7_Step ==
    /\ ButtonZoom =>
          RLe(RInt(1), transform'.scale) /\ RLe(transform'.scale, RInt(4))
    /\ PinchSample =>
          RLe(Rat(8, 10), transform'.scale) /\ RLe(transform'.scale, RInt(6))

\* C7: the scale produced by every zoom operation lies in the revision's
\* range: [1, 4] for the zoom buttons, [0.8, 6] for a pinch sample, whatever
\* the factor.
C7_ZoomStaysInRange == [][C7_Step]_vars

\* C7 witness: a pinch sample with factor 13 has left the scale at the upper
\* limit 6.
C7_Witness ==
    /\ variant = "magnifier"
    /\ lastOp.op = "onPointerMove"
    /\ Cardinality(DOMAIN pointers) = 2
    /\ lastPinchDist = Num(13)
    /\ transform.scale = RInt(6)

\* One reset that finds its canvas and 2d context.
ResetApplied ==
    \/ Tap_resetMeasurement(TRUE)
    \/ TapJs_resetMeasurement
    \/ SC_resetMeasurement(TRUE)

\* The state a reset leaves: no points, no result, marking off.
IsReset == points = <<>> /\ result = NoResult /\ ~isMarking

\* What C11 asks of one step.
C11_Step ==
    (image # NoImage /\ ResetApplied) =>
        /\ image' = image
        /\ points' = <<>> /\ result' = NoResult /\ ~isMarking'
        /\ IsReset => UNCHANGED <<image, points, result, isMarking, transform>>

\* C11: with an image loaded, a reset leaves empty points, no result and
\* marking off and keeps the image; applied to the state a reset has left it
\* changes nothing, so twice is the same as once.
C11_ResetIdempotent == [][C11_Step]_vars

\* C11 witness: a reset has run on a state that was already reset.
C11_Witness ==
    /\ variant \in { "tapjs", "tap", "scroll" }
    /\ image # NoImage
    /\ lastOp = [op |-> "resetMeasurement", n |-> 0]
    /\ Settled
    /\ IsReset

\* One completed image load of a revision with a marking flag.
LoadCompletes ==
    \/ \E img \in Images : ZP_onload(img)
    \/ \E img \in Images : MG_onload(img)
    \/ \E img \in Images : SC_onload(img, TRUE)

\* The fit-to-viewport transform: scale = viewport width / image width,
\* offsets (0, 0).
FitTransform(img) == [scale |-> Rat(Layout.width, img.width), x |-> Zero, y |-> Zero]

\* What C12 asks of one step.
C12_Step ==
    LoadCompletes =>
        /\ points' = <<>>
        /\ result' = NoResult
        /\ ~isMarking'
        /\ variant \in { "zoompan", "magnifier" } => transform' = FitTransform(image')

\* C12: a completed image load leaves the session in Viewing from any state:
\* points empty, no result, isMarking false and the transform fitted to the
\* viewport width.  The zoompan revision's onload neither clears isMarking
\* nor fits the scale (it sets scale 1).
C12_LoadGivesViewing == [][C12_Step]_vars

\* What C13 asks of one step: the state reached, once settled, holds no
\* result with fewer than 4 points, and a step that shortens the list to
\* fewer than 4 points clears the result itself.
C13_Step ==
    /\ (~effectPending' /\ Len(points') < 4) => result' = NoResult
    /\ (Len(points') < Len(points) /\ Len(points') < 4) => result' = NoResult

\* C13: in every settled state with fewer than 4 committed points no result
\* is stored; an undo, reset or load that brings the list below 4 clears it.
C13_NoResultBelowFour == [][C13_Step]_vars

\* C13 witness: an undo has taken a measured list of 4 points to 3, and the
\* result is gone.
C13_Witness ==
    /\ variant = "magnifier"
    /\ lastOp = [op |-> "undoLast", n |-> 4]
    /\ Len(points) = 3
    /\ Settled
    /\ result = NoResult

\* C14: convertSize returns u + 1 for the US system and u for the IND and
\* the UK system, for every UK size u in 5..10.
C14_ConvertSize ==
    call.fn = "convertSize" =>
        /\ call.system = "US" => call.out = call.uk + 1
        /\ call.system \in { "IND", "UK" } => call.out = call.uk

\* C14 witness: UK 10 has been converted to US 11.
C14_Witness ==
    /\ call.fn = "convertSize"
    /\ call.uk = 10 /\ call.system = "US"
    /\ call.out = 11

\* One file-selection event: no file chosen, or a file whose decode is
\* pending from then on.
FileSelected ==
    \/ \E file \in Images \cup {NoImage} : Tap_handleImageUpload(file)
    \/ \E file \in Images \cup {NoImage} : TapJs_handleImageUpload(file)
    \/ \E file \in Images \cup {NoImage} : SC_handleImageUpload(file)
    \/ \E file \in Images \cup {NoImage} : ZP_handleImageUpload(file)
    \/ \E file \in Images \cup {NoImage} : MG_handleImageUpload(file)

\* What C15 asks of one step.
C15_Step ==
    FileSelected => UNCHANGED <<image, points, result, isMarking, transform>>

\* C15: a file-selection event with no file, and the selection of a file
\* whose onload has not fired, change none of image, points, result,
\* isMarking and transform.
C15_InputErrorKeepsState == [][C15_Step]_vars

\* C15 witness: with an image loaded and points placed a file was chosen,
\* its decode is pending, and image and points are still there.
C15_Witness ==
    /\ lastOp.op = "handleImageUpload"
    /\ decoding # {}
    /\ image # NoImage
    /\ lastOp.n > 0
    /\ Len(points) = lastOp.n

\* C16: in no settled state of a revision with a marking flag is isMarking
\* true while no image is loaded or while 4 points are committed.  The
\* zoompan button is never disabled, and the scroll and magnifier buttons
\* are enabled again once the 4 points are complete.
C16_MarkingOnlyFromViewing ==
    (variant \in Flagged /\ Settled /\ isMarking)
        => (image # NoImage /\ Len(points) # 4)

\* What C17 asks of one step.
C17_Step ==
    (variant \in Flagged /\ Len(points') > Len(points)) => isMarking

\* C17: in the revisions with a marking flag the committed list grows only
\* by a step taken while isMarking is true.  confirmPoint does not look at
\* isMarking; after an undo from 5 points (see C1) the effect clears
\* isMarking while a preview is pending, and the confirm appends it.
C17_GrowsOnlyWhileMarking == [][C17_Step]_vars

\* One pointer event of the magnifier revision with one finger, as the full
\* specification delivers them.
MG_PointerEvent ==
    \/ \E id \in PointerIds, pos \in MGPos : MG_onPointerDown(id, pos)
    \/ \E id \in PointerIds, pos \in MGPos : MG_onPointerMove(id, pos, MaxPan)
    \/ \E id \in PointerIds : MG_onPointerUp(id)

\* What C18 asks of one step.
C18_Step ==
    /\ MG_PointerEvent => points' = points
    /\ (variant = "magnifier" /\ Len(points') > Len(points)) => MG_confirmPoint
    /\ MG_confirmPoint =>
          IF previewPoint = NoPoint
          THEN points' = points /\ previewPoint' = previewPoint
          ELSE points' = Append(points, previewPoint.p) /\ previewPoint' = NoPoint

\* C18: in the magnifier revision pointer down / move / up never change the
\* committed list; only Confirm Point appends, exactly the pending preview,
\* and clears the preview; with no preview pending it changes neither.
C18_OnlyConfirmCommits == [][C18_Step]_vars

\* C18 witness: a confirm has appended the previewed point and cleared the
\* preview.
C18_Witness ==
    /\ variant = "magnifier"
    /\ lastOp.op = "confirmPoint"
    /\ Len(points) = lastOp.n + 1
    /\ previewPoint = NoPoint
    /\ DOMAIN pointers # {}

\* One pointer event of the magnifier revision with up to two fingers, as
\* SpecZoom delivers them.
MG_TouchEvent ==
    \/ \E id \in ZoomPointerIds, pos \in ZoomPos : MG_onPointerDown(id, pos)
    \/ \E id \in ZoomPointerIds, pos \in ZoomPos : MG_onPointerMove(id, pos, MaxPinch)
    \/ \E id \in ZoomPointerIds : MG_onPointerUp(id)

\* What C19 asks of one step.
C19_Step == (isMarking /\ MG_TouchEvent) => transform' = transform

\* C19: in the magnifier revision no pointer event changes the transform
\* while isMarking is true, with any number of active pointers.  onPointerMove
\* returns early only for one active pointer: with two, the pinch branch runs
\* while marking and changes the scale.
C19_NoTransformWhileMarking == [][C19_Step]_vars

\* What C20 asks of one step.
C20_Step ==
    (MG_TouchEvent /\ previewPoint' # previewPoint)
        => (isMarking /\ Cardinality(DOMAIN pointers') = 1)

\* C20: in the magnifier revision a pointer event sets or moves the preview
\* only while marking with exactly one pointer active; a pointer-down that
\* makes a second pointer active leaves the preview alone.  onPointerDown
\* tests isMarking only, so the second finger's pointer-down moves the
\* preview to its position.
C20_PreviewNeedsOnePointer == [][C20_Step]_vars


\* What C21 asks of one step: the state it reaches has a pinch reference
\* only with two or more active pointers, and a pointer-up removes the entry
\* of its own pointer and no other.
C21_Step ==
    /\ lastPinchDist' # NoDist => Cardinality(DOMAIN pointers') >= 2
    /\ \A id \in PinchPointerIds :
          MG_onPointerUp(id) =>
              /\ DOMAIN pointers' = DOMAIN pointers \ {id}
              /\ \A j \in DOMAIN pointers' : pointers'[j] = pointers[j]

\* C21: in the magnifier revision lastPinchDist is non-null only while the
\* pointer map holds at least two entries, and each pointer up/cancel
\* removes exactly the entry of that pointer.
C21_PinchRefNeedsTwoPointers == [][C21_Step]_vars

\* A pinch has changed the scale, one of its fingers has lifted, and the
\* reference distance is gone with it.
C21_Witness ==
    /\ variant = "magnifier"
    /\ lastOp.op = "onPointerUp"
    /\ image = NoImage
    /\ transform.scale # One
    /\ Cardinality(DOMAIN pointers) = 1
    /\ lastPinchDist = NoDist

\* A pan step: a move of the panning pointer of the zoompan revision, or a
\* move of the only active pointer of the magnifier revision outside marking.
PanStep ==
    \/ /\ \E pos \in ZPPos : ZP_onPointerMove(pos, MaxGestures)
       /\ isPanning
    \/ /\ \E id \in ZoomPointerIds, pos \in ZoomPos : MG_onPointerMove(id, pos, MaxPinch)
       /\ Cardinality(DOMAIN pointers') = 1
       /\ ~isMarking

\* A zoom step: a zoom button of the zoompan revision, or a pinch sample of
\* the magnifier revision.
ZoomStep ==
    \/ \E f \in ZoomFactors : ZP_zoom(f, MaxGestures)
    \/ PinchSample

\* The session data that neither pan nor zoom may touch.
C22_Untouched ==
    /\ points' = points
    /\ previewPoint' = previewPoint
    /\ result' = result
    /\ isMarking' = isMarking

\* The displacement of the panning pointer in a pan step.
PanDelta ==
    IF variant = "zoompan"
    THEN <<lastPos'[1] - lastPos[1], lastPos'[2] - lastPos[2]>>
    ELSE LET id == CHOOSE i \in DOMAIN pointers' : TRUE
         IN  <<pointers'[id][1] - pointers[id][1],
               pointers'[id][2] - pointers[id][2]>>

\* What C22 asks of one step.
C22_Step ==
    /\ PanStep =>
          /\ transform'.x = RAdd(transform.x, RInt(PanDelta[1]))
          /\ transform'.y = RAdd(transform.y, RInt(PanDelta[2]))
          /\ transform'.scale = transform.scale
          /\ C22_Untouched
    /\ ZoomStep =>
          /\ transform'.x = transform.x
          /\ transform'.y = transform.y
          /\ C22_Untouched

C23_UndoSetsMarking ==
    (variant = "magnifier" /\ lastOp.op = "undoLast" /\ ~effectPending) =>
        /\ Len(points) \in 1..3 => isMarking
        /\ Len(points) = 0 => ~isMarking

\* What an instruction text asks the user to tap, by the words in it.
Names(text) ==
    CASE text \in { "Step 1: Tap LEFT edge of A4 paper", "Tap LEFT edge of A4 paper",
                    "Select LEFT edge of A4 paper" } -> 1
      [] text \in { "Step 2: Tap RIGHT edge of A4 paper", "Tap RIGHT edge of A4 paper",
                    "Select RIGHT edge of A4 paper" } -> 2
      [] text \in { "Step 3: Tap TOE of foot", "Tap TOE of foot",
                    "Select TOE of foot" } -> 3
      [] text \in { "Step 4: Tap HEEL of foot", "Tap HEEL of foot",
                    "Select HEEL of foot" } -> 4
      [] text \in { "Measurement complete", "Measurement completed", "Done" } -> 5
      [] OTHER -> 0

\* Points are being collected: always in the revisions without a marking
\* flag, while isMarking in the others.
Collecting == variant \notin Flagged \/ isMarking

\* The last handler placed the 4th point.
FourthPlaced ==
    /\ Len(points) = 4
    /\ lastOp.n = 3
    /\ lastOp.op \in { "handlePointerDown", "onPointerDown", "confirmPoint" }

\* C24: in every settled state with k < 4 points during marking the
\* instruction names the (k+1)-th point, and in the settled state right after
\* the 4th point is placed and measured it is the completion message.  In the
\* revisions with a marking flag the effect that measures also clears
\* isMarking, and getInstruction then returns the idle text.
C24_InstructionFollowsCollector ==
    Settled =>
        /\ (Collecting /\ Len(points) < 4) => Names(Instruction) = Len(points) + 1
        /\ (FourthPlaced /\ result # NoResult) => Names(Instruction) = 5

\* The image point the revision computes for a pointer at surface position s.
TapAt(s) ==
    IF variant = "zoompan" THEN toImageCoordsAt(s.x, s.y)
    ELSE getImageCoordsAt(s.x, s.y)

\* C25: under every reachable transform, a tap at the surface position
\* where a committed point p is drawn is converted back to p, whatever the
\* ratio between the canvas' pixel size and its rendered size.
\* toImageCoords of the zoompan revision never scales by
\* canvas.width / rect.width, so with a 400 pixel wide image shown 200 wide
\* the point (50, 0) is drawn at surface x = 25 and a tap there gives 25.
C25_TapInvertsDrawing ==
    (variant \in { "zoompan", "magnifier" } /\ image # NoImage) =>
        \A i \in DOMAIN points :
            TapAt(OnSurface(DrawnAt(points[i]))) = points[i]

\* What C26 asks of one step.
C26_Step ==
    /\ \/ points' = points
       \/ Len(points') = Len(points) + 1 /\ SubSeq(points', 1, Len(points)) = points
       \/ Len(points) > 0 /\ points' = SubSeq(points, 1, Len(points) - 1)
       \/ points' = <<>>
    /\ \A i \in DOMAIN points \cap DOMAIN points' : points'[i] = points[i]

\* C26: every operation of every revision leaves the committed points as
\* they are, appends one point at the end, removes the last point, or
\* empties the list; a point that stays keeps its index and its value.
C26_PointsAppendOnly == [][C26_Step]_vars

\* Two different points were committed, a third was added and undone: the
\* first two are where they were.
C26_Witness ==
    /\ variant = "magnifier"
    /\ lastOp = [op |-> "undoLast", n |-> 3]
    /\ Len(points) = 2
    /\ points[1] # points[2]

\* C27: in the magnifier revision, whenever exactly two pointers are active
\* and a pinch reference distance is stored, the reference is the distance
\* between the last recorded positions of those two pointers, also after a
\* third pointer went down and one of the first two lifted.  With three
\* pointers down onPointerMove skips the pinch branch and onPointerUp clears
\* the reference only below two pointers, so after 3 -> 2 the reference is
\* still the distance of the earlier pair.
C27_PinchRefIsCurrentPair ==
    (variant = "magnifier" /\ Cardinality(DOMAIN pointers) = 2
        /\ lastPinchDist # NoDist)
        => lastPinchDist = PinchDist(pointers)

\* Both files have been selected: the second one is decoding or installed.
BothSelected == SecondImage \in decoding \/ image = SecondImage

\* What C28 asks of the step that completes the last pending decode.
C28_Step ==
    (BothSelected /\ decoding # {} /\ decoding' = {}) =>
        /\ image' = SecondImage
        /\ points' = <<>>
        /\ result' = NoResult

\* C28: when two files are selected one after the other and both decodes
\* complete, in any order and with taps in between, the session holds the
\* file selected second, with no point and no result from before it was
\* installed.  Each onload installs its own image, so when the first file's
\* decode completes last, the first file replaces the second.
C28_LaterSelectionWins == [][C28_Step]_vars
=============================================================================
